---- MODULE Spec2Model ----
(***************************************************************************)
(* A model of notify-rs: the `event` table (src/db.rs), the expansion of a *)
(* parsed notification into stored notifications (src/models.rs) and the   *)
(* background firing loop (src/bot.rs).                                    *)
(*                                                                         *)
(* Time is a number of seconds counted from a Monday 00:00:00 UTC, so that *)
(* chrono's weekday(), hour() and minute() are plain arithmetic.           *)
(***************************************************************************)
EXTENDS Integers, Sequences, FiniteSets, TLC

VARIABLES
    events,           \* the rows of table `event`, in rowid order
    sqlite_sequence,  \* the largest rowid the autoincrement key has handed out
    now,              \* what Utc::now() returns
    ticks,            \* number of clock steps taken so far
    bg_pc,            \* where run_background is: "get", "send", "delete", "sleep"
    events_to_fire,   \* run_one_background_loop's local: the batch
    event_ids,        \* run_one_background_loop's local: the ids of the batch
    bg_i,             \* index of the next event of the batch to send
    sent,             \* history: id -> number of successful send_message calls
    cycle_batch,      \* history: the ids get_events_to_fire returned to the current cycle
    cycle_sent,       \* history: ids sent successfully in the current cycle
    cycle_failed,     \* history: ids whose send_message failed in the current cycle
    loop_consumed,    \* history: ids the firing loop's delete_events has marked
    user_deleted,     \* history: ids a Delete callback's delete_events was given
    last_insert,      \* history: the last insert_event call and what it returned
    state,            \* Bot::run's local `state`: chat id -> State
    state_channel,    \* the (chat_id, new_state) messages sent and not yet received
    handlers,         \* the spawned BotHandler tasks that have not run yet
    last_offset,      \* Bot::run's local: the number of updates it has taken
    run_pc,           \* where Bot::run is: "updates" (the for loop), "recv" (try_recv)
    handled,          \* history: the last update a BotHandler handled, and its outcome
    tally,            \* history: the Parsed states the handlers sent, the inserts that made rows
    expand_input,     \* the (notification, current_time) create_stored_notifications is given
    expand_result,    \* what create_stored_notifications returned for expand_input
    codec             \* a CallbackQuery, its to_string and the from_str of that string

vars == <<events, sqlite_sequence, now, ticks, bg_pc, events_to_fire, event_ids,
          bg_i, sent, cycle_batch, cycle_sent, cycle_failed, loop_consumed,
          user_deleted, last_insert, state, state_channel, handlers, last_offset,
          run_pc,
          handled, tally, expand_input, expand_result, codec>>

----------------------------------------------------------------------------
(* Bounds of the model. *)

MaxRows == 3
MaxSent == 2
MaxTicks == 2
MaxHandlers == 2
MaxUpdates == 3

----------------------------------------------------------------------------
(* Time: chrono's calendar arithmetic on a count of seconds. *)

SecondsPerMinute == 60
SecondsPerHour == 60 * 60
SecondsPerDay == 24 * 60 * 60
SecondsPerWeek == 7 * 24 * 60 * 60

\* SQL NULL and Rust's None for a number.
NULL == 0 - 1

\* current_time.weekday().num_days_from_monday() + 1
Weekday(t) == ((t \div SecondsPerDay) % 7) + 1
\* current_time.hour()
HourOf(t) == (t % SecondsPerDay) \div SecondsPerHour
\* current_time.minute()
MinuteOf(t) == (t % SecondsPerHour) \div SecondsPerMinute
\* current_time.hour() * 60 + current_time.minute()
MinutesOfDay(t) == HourOf(t) * 60 + MinuteOf(t)

\* A with_hour that carries an hour past 23 into the next day.
WithHourWrapping(t, h) ==
    IF t = NULL THEN NULL
    ELSE t - HourOf(t) * SecondsPerHour + h * SecondsPerHour

\* DateTime::with_hour: None when the hour is not one of a day.
WithHour(t, h) ==
    IF t = NULL \/ h > 23 THEN NULL
    ELSE t - HourOf(t) * SecondsPerHour + h * SecondsPerHour

\* DateTime::with_minute: None when the minute is not one of an hour.
WithMinute(t, m) ==
    IF t = NULL \/ m > 59 THEN NULL
    ELSE t - MinuteOf(t) * SecondsPerMinute + m * SecondsPerMinute

Range(s) == {s[i] : i \in DOMAIN s}

----------------------------------------------------------------------------
(* Inputs: the clock, the users and the notifications the parser returns. *)

\* The instant the process starts at: Monday 09:00:30.
StartTime == 9 * SecondsPerHour + 30
HalfDay == 12 * SecondsPerHour
TickSteps == {HalfDay, SecondsPerWeek}

Users == {1, 2}
\* The chats updates come from: the users of TG_USERS and a stranger.
Chats == Users \cup {3}

\* Option<ArrayVec<u8, 7>>: None is the empty sequence, Some(d) is <<d>>.
None == <<>>
Some(x) == <<x>>

Time(h, m) == [hours |-> h, minutes |-> m]

AbsoluteNotifications ==
    {[kind |-> "abs", text |-> "a", week |-> 0, days |-> None, times |-> ts] :
        ts \in {<<StartTime>>, <<StartTime + HalfDay, StartTime>>}}

RelativeNotifications ==
    {[kind |-> "rel", text |-> "r", week |-> 0, days |-> <<2>>, times |-> ts] :
        ts \in {<<Time(8, 0), Time(24, 0)>>}}

RecurrentNotifications ==
    {[kind |-> "rec", text |-> "c", week |-> 0, days |-> n[1], times |-> n[2]] :
        n \in {<<None, <<Time(8, 0)>>>>,
               <<Some(<<1>>), <<Time(8, 0), Time(9, 0)>>>>,
               <<Some(<<2, 1>>), <<Time(8, 0)>>>>}}

Notifications ==
    AbsoluteNotifications \cup RelativeNotifications \cup RecurrentNotifications

\* What serde_json makes of the parser's answer: days and times are u8,
\* of any value. Beside the notifications above, a recurrent notification
\* for Sunday written as day 0, and one with a day and a time that do not
\* exist.
RecordNotifications ==
    Notifications
        \cup {[kind |-> "rec", text |-> "c", week |-> 0, days |-> n[1], times |-> n[2]] :
                n \in {<<Some(<<0>>), <<Time(8, 0)>>>>,
                       <<Some(<<7, 8>>), <<Time(24, 60)>>>>}}

\* The id lists a Delete callback carries.
Ids == 1..(MaxRows + 1)
IdLists == {<<i>> : i \in Ids} \cup {<<i, j>> : i \in Ids, j \in Ids}
DeleteIdLists == {<<1>>, <<2, MaxRows + 1>>}

\* The inputs of the run of the firing loop: what each user accepts, and
\* the Delete callbacks.
LoopAccepts ==
    {a \in Users \X Notifications :
        \/ a[1] = 1 /\ a[2].kind = "abs" /\ Len(a[2].times) = 1
        \/ a[1] = 2 /\ a[2].kind = "rec" /\ a[2].days = Some(<<1>>)}
LoopDeleteIdLists == {<<1>>}

\* The inputs of create_stored_notifications taken alone: a Relative
\* notification (weeks, days and times, a time of day that does not exist
\* among them) and the instant of the call, on every day of a week.
ExpandWeeks == {0, 1, 2}
ExpandDays == {<<2>>, <<5, 1>>, <<3, 4>>, <<7>>}
ExpandTimes ==
    {<<Time(8, 0)>>, <<Time(23, 30), Time(24, 0)>>, <<Time(7, 60), Time(0, 5), Time(12, 0)>>}
ExpandNotifications ==
    {[kind |-> "rel", text |-> "r", week |-> w, days |-> d, times |-> ts] :
        w \in ExpandWeeks, d \in ExpandDays, ts \in ExpandTimes}
ExpandInstants ==
    {d * SecondsPerDay + x : d \in 0..6, x \in {StartTime, 23 * SecondsPerHour + 15}}
ExpandInputs ==
    {[notification |-> n, current_time |-> t] :
        n \in ExpandNotifications, t \in ExpandInstants}

\* chrono_tz::Israel: the offsets of local time from UTC, and the local
\* time of a UTC instant (from_utc_datetime).
IsraelOffsets == {2 * SecondsPerHour, 3 * SecondsPerHour}
LocalOf(t, offset) == t + offset

----------------------------------------------------------------------------
(* src/models.rs *)

StoredAbsolute(t) ==
    [kind |-> "Absolute", time |-> t, hours |-> NULL, minutes |-> NULL, days |-> None]

StoredRecurrent(h, m, d) ==
    [kind |-> "Recurrent", time |-> NULL, hours |-> h, minutes |-> m, days |-> d]

\* Notification::get_text
get_text(n) == n.text

\* A Relative arm that takes the week as it is given.
RelativeStoredSameWeek(n, current_time) ==
    LET days == n.days
        current_day_of_week == Weekday(current_time)
        monday == current_time - (current_day_of_week - 1) * SecondsPerDay
                    + n.week * SecondsPerWeek
        nt == Len(n.times)
        pair(k) ==
            LET x == monday + (days[((k - 1) \div nt) + 1] - 1) * SecondsPerDay
                time == n.times[((k - 1) % nt) + 1]
            IN  WithMinute(WithHour(x, time.hours), time.minutes)
        all == [k \in 1..(Len(days) * nt) |-> pair(k)]
        kept == SelectSeq(all, LAMBDA t : t # NULL)
    IN  [k \in 1..Len(kept) |-> StoredAbsolute(kept[k])]

\* The Relative arm of create_stored_notifications.
RelativeStored(n, current_time) ==
    LET days == n.days
        current_day_of_week == Weekday(current_time)
        has_any_day_in_past ==
            \E i \in DOMAIN days : days[i] <= current_day_of_week
        week == IF n.week = 0 /\ has_any_day_in_past THEN 1 ELSE n.week
        monday == current_time - (current_day_of_week - 1) * SecondsPerDay
                    + week * SecondsPerWeek
        nt == Len(n.times)
        pair(k) ==
            LET x == monday + (days[((k - 1) \div nt) + 1] - 1) * SecondsPerDay
                time == n.times[((k - 1) % nt) + 1]
            IN  WithMinute(WithHour(x, time.hours), time.minutes)
        all == [k \in 1..(Len(days) * nt) |-> pair(k)]
        kept == SelectSeq(all, LAMBDA t : t # NULL)
    IN  [k \in 1..Len(kept) |-> StoredAbsolute(kept[k])]

\* An expansion that gives a recurrent notification without days the Monday.
CreateStoredEveryMonday(n, current_time) ==
    CASE n.kind = "abs" ->
            [i \in 1..Len(n.times) |-> StoredAbsolute(n.times[i])]
      [] n.kind = "rel" -> RelativeStored(n, current_time)
      [] n.kind = "rec" ->
            [i \in 1..Len(n.times) |->
                StoredRecurrent(n.times[i].hours, n.times[i].minutes,
                                IF n.days = None THEN Some(<<1>>) ELSE n.days)]

\* Notification::create_stored_notifications
create_stored_notifications(n, current_time) ==
    CASE n.kind = "abs" ->
            [i \in 1..Len(n.times) |-> StoredAbsolute(n.times[i])]
      [] n.kind = "rel" -> RelativeStored(n, current_time)
      [] n.kind = "rec" ->
            [i \in 1..Len(n.times) |->
                StoredRecurrent(n.times[i].hours, n.times[i].minutes, n.days)]

----------------------------------------------------------------------------
(* src/db.rs *)

\* The values of one `insert into event` statement of insert_event.
AbsoluteRow(user_id, text, time) ==
    [kind |-> "absolute", user_id |-> user_id, event_text |-> text,
     event_time |-> time, day |-> NULL, hour |-> NULL, minute |-> NULL,
     is_deleted |-> 0]

\* An insert statement with the hour and the minute in each other's column.
RecurrentRowSwapped(user_id, text, day, hours, minutes) ==
    [kind |-> "recurrent", user_id |-> user_id, event_text |-> text,
     event_time |-> NULL, day |-> day, hour |-> minutes, minute |-> hours,
     is_deleted |-> 0]

RecurrentRow(user_id, text, day, hours, minutes) ==
    [kind |-> "recurrent", user_id |-> user_id, event_text |-> text,
     event_time |-> NULL, day |-> day, hour |-> hours, minute |-> minutes,
     is_deleted |-> 0]

\* An insert_event that makes one row of a recurrent notification, with the
\* first of its days.
StatementsOfFirstDay(user_id, text, notification) ==
    IF notification.kind = "Absolute"
    THEN <<AbsoluteRow(user_id, text, notification.time)>>
    ELSE IF notification.days = None \/ notification.days[1] = <<>> THEN <<>>
    ELSE <<RecurrentRow(user_id, text, notification.days[1][1],
                        notification.hours, notification.minutes)>>

\* The statements insert_event executes for one stored notification.
StatementsOf(user_id, text, notification) ==
    IF notification.kind = "Absolute"
    THEN <<AbsoluteRow(user_id, text, notification.time)>>
    ELSE IF notification.days = None THEN <<>>
    ELSE LET days == notification.days[1]
         IN  [i \in 1..Len(days) |->
                RecurrentRow(user_id, text, days[i],
                             notification.hours, notification.minutes)]

RECURSIVE InsertStatements(_, _, _)
\* The statements insert_event executes, in order, for the whole list.
InsertStatements(user_id, text, stored_notification) ==
    IF stored_notification = <<>> THEN <<>>
    ELSE StatementsOf(user_id, text, Head(stored_notification))
            \o InsertStatements(user_id, text, Tail(stored_notification))

\* A rowid that is the largest one handed out, not the one after it.
NextRowidStale(seq) == seq

\* The rowid an insert is given: integer primary key autoincrement.
NextRowid(seq) == seq + 1

RECURSIVE Rowid(_, _)
\* tx.last_insert_rowid() after the k-th insert of a transaction that
\* started with sqlite_sequence at seq.
Rowid(seq, k) == IF k = 0 THEN seq ELSE NextRowid(Rowid(seq, k - 1))

\* The table inside the transaction after the first n statements.
TxRows(rows, seq, stmts, n) ==
    rows \o [k \in 1..n |-> [id |-> Rowid(seq, k)] @@ stmts[k]]

\* A transaction whose executed statements stay when it fails.
TxOutcomeNoRollback(rows, seq, stmts, fail) ==
    LET n == IF fail = 0 \/ fail > Len(stmts) THEN Len(stmts) ELSE fail - 1
    IN  [events |-> TxRows(rows, seq, stmts, n), sqlite_sequence |-> Rowid(seq, n)]

\* What the database holds once insert_event's transaction has ended.
\* fail = 0: every statement and the commit succeed; fail = k: the k-th
\* statement fails (the commit, for k past the last statement) and the
\* transaction is dropped without a commit.
TxOutcome(rows, seq, stmts, fail) ==
    IF fail = 0
    THEN [events |-> TxRows(rows, seq, stmts, Len(stmts)),
          sqlite_sequence |-> Rowid(seq, Len(stmts))]
    ELSE [events |-> rows, sqlite_sequence |-> seq]

\* EventRepository::insert_event: the result and the database afterwards.
insert_event(rows, seq, user_id, text, stored_notification, fail) ==
    LET stmts == InsertStatements(user_id, text, stored_notification)
        db == TxOutcome(rows, seq, stmts, fail)
    IN  [ok |-> fail = 0,
         ids |-> IF fail = 0
                 THEN [k \in 1..Len(stmts) |-> Rowid(seq, k)]
                 ELSE <<>>,
         events |-> db.events,
         sqlite_sequence |-> db.sqlite_sequence]

\* An update that flips is_deleted.
MarkDeletedToggle(row) == [row EXCEPT !.is_deleted = 1 - @]

\* update event set is_deleted = 1
MarkDeleted(row) == [row EXCEPT !.is_deleted = 1]

\* EventRepository::delete_events: the table after the update.
delete_events(rows, ids) ==
    [i \in 1..Len(rows) |->
        IF rows[i].id \in Range(ids) THEN MarkDeleted(rows[i]) ELSE rows[i]]

\* SQL comparisons: a comparison with NULL is not true.
SqlEq(a, b) == a # NULL /\ b # NULL /\ a = b
\* A comparison with <= in the place of <.
SqlLe(a, b) == a # NULL /\ b # NULL /\ a <= b
SqlLt(a, b) == a # NULL /\ b # NULL /\ a < b

\* A where clause that leaves `is_deleted = 0` out.
ToFireAlsoDeleted(row, current_time) ==
    \/ row.kind = "absolute" /\ SqlLt(row.event_time, current_time)
    \/ /\ row.kind = "recurrent"
       /\ SqlEq(row.day, Weekday(current_time))
       /\ row.hour * 60 + row.minute < MinutesOfDay(current_time)

\* The where clause of get_events_to_fire.
ToFire(row, current_time) ==
    LET current_day == Weekday(current_time)
        minutes == MinutesOfDay(current_time)
    IN  /\ row.is_deleted = 0
        /\ \/ row.kind = "absolute" /\ SqlLt(row.event_time, current_time)
           \/ /\ row.kind = "recurrent"
              /\ SqlEq(row.day, current_day)
              /\ row.hour # NULL /\ row.minute # NULL
              /\ row.hour * 60 + row.minute < minutes

EventToFire(row) ==
    [event_id |-> row.id, user_id |-> row.user_id, text |-> row.event_text]

\* EventRepository::get_events_to_fire
get_events_to_fire(rows, current_time) ==
    LET hit == SelectSeq(rows, LAMBDA row : ToFire(row, current_time))
    IN  [i \in 1..Len(hit) |-> EventToFire(hit[i])]

----------------------------------------------------------------------------
(* src/bot.rs: the background loop, and the handlers' calls of the store *)

\* State
NoNotification ==
    [kind |-> "none", text |-> "", week |-> 0, days |-> None, times |-> <<>>]
Idle == [kind |-> "Idle", text |-> "", notification |-> NoNotification]
Parsed(text, notification) ==
    [kind |-> "Parsed", text |-> text, notification |-> notification]
ParsedWithError(text) ==
    [kind |-> "ParsedWithError", text |-> text, notification |-> NoNotification]

\* CallbackQuery
Repeat == [kind |-> "Repeat", ids |-> <<>>]
Accept == [kind |-> "Accept", ids |-> <<>>]
Cancel == [kind |-> "Cancel", ids |-> <<>>]
Delete(ids) == [kind |-> "Delete", ids |-> ids]

\* What a string that is no CallbackQuery parses to.
NoQuery == [kind |-> "Invalid", ids |-> <<>>]

\* A String is the sequence of its characters.
Digits == <<"0", "1", "2", "3", "4", "5", "6", "7", "8", "9">>
IsDigit(c) == \E d \in DOMAIN Digits : Digits[d] = c
DigitValue(c) == (CHOOSE d \in DOMAIN Digits : Digits[d] = c) - 1

\* write!(s, "{}", id): the decimal digits of a u64.
RECURSIVE Decimal(_)
Decimal(n) ==
    IF n < 10 THEN <<Digits[n + 1]>>
    ELSE Decimal(n \div 10) \o <<Digits[(n % 10) + 1]>>

\* The for loop of to_string: every id followed by a comma.
RECURSIVE WriteIds(_)
WriteIds(ids) ==
    IF ids = <<>> THEN <<>>
    ELSE Decimal(Head(ids)) \o <<",">> \o WriteIds(Tail(ids))

\* CallbackQuery::to_string
to_string(q) ==
    CASE q.kind = "Repeat" -> <<"r", "e", "p", "e", "a", "t">>
      [] q.kind = "Accept" -> <<"a", "c", "c", "e", "p", "t">>
      [] q.kind = "Cancel" -> <<"c", "a", "n", "c", "e", "l">>
      [] OTHER ->
            LET s == WriteIds(q.ids)
            IN  IF s # <<>> /\ s[Len(s)] = "," THEN SubSeq(s, 1, Len(s) - 1) ELSE s

\* str::split(','): the pieces between the commas; the empty string has
\* one piece, the empty one.
RECURSIVE Split(_)
Split(s) ==
    IF \A k \in DOMAIN s : s[k] # "," THEN <<s>>
    ELSE LET k == CHOOSE j \in DOMAIN s :
                        s[j] = "," /\ \A i \in 1..(j - 1) : s[i] # ","
         IN  <<SubSeq(s, 1, k - 1)>> \o Split(SubSeq(s, k + 1, Len(s)))

\* The number the digits stand for.
RECURSIVE DigitsValue(_)
DigitsValue(p) ==
    IF p = <<>> THEN 0
    ELSE DigitsValue(SubSeq(p, 1, Len(p) - 1)) * 10 + DigitValue(p[Len(p)])

\* u64::from_str: digits, at least one, after an optional plus sign.
u64_from_str(p) ==
    LET digits == IF p # <<>> /\ p[1] = "+" THEN Tail(p) ELSE p
    IN  IF digits # <<>> /\ \A k \in DOMAIN digits : IsDigit(digits[k])
        THEN [ok |-> TRUE, value |-> DigitsValue(digits)]
        ELSE [ok |-> FALSE, value |-> 0]

\* CallbackQuery::from_str
from_str(s) ==
    CASE s = <<"r", "e", "p", "e", "a", "t">> -> [ok |-> TRUE, data |-> Repeat]
      [] s = <<"a", "c", "c", "e", "p", "t">> -> [ok |-> TRUE, data |-> Accept]
      [] s = <<"c", "a", "n", "c", "e", "l">> -> [ok |-> TRUE, data |-> Cancel]
      [] OTHER ->
            LET pieces == Split(s)
            IN  IF \A k \in DOMAIN pieces : u64_from_str(pieces[k]).ok
                THEN [ok |-> TRUE,
                      data |-> Delete([k \in DOMAIN pieces |->
                                            u64_from_str(pieces[k]).value])]
                ELSE [ok |-> FALSE, data |-> NoQuery]

\* Update: a message with a text, or a callback query with the callback
\* data of the button pressed (payload) and what it parses to (data).
MessageUpdate(text) ==
    [kind |-> "message", text |-> text, data |-> Cancel, payload |-> <<>>]
CallbackUpdate(data) ==
    [kind |-> "callback_query", text |-> "",
     data |-> from_str(to_string(data)).data, payload |-> to_string(data)]

\* The update no handler has handled yet.
NoUpdate == [kind |-> "none", text |-> "", data |-> Cancel, payload |-> <<>>]

\* Result<Notification, BotError> of OpenAIParser::parse
ParseOk(notification) == [ok |-> TRUE, notification |-> notification]
ParseErr == [ok |-> FALSE, notification |-> NoNotification]

\* Result<(Option<String>, State), BotError> of a transition
Ok(answer_text, new_state) ==
    [ok |-> TRUE, answer_text |-> answer_text, state |-> new_state]
Err == [ok |-> FALSE, answer_text |-> None, state |-> Idle]

\* The inputs of the conversations: the texts users send, what the parser
\* answers, the ids of a Delete button, and which call of a handler fails
\* (store: 0 none, 1 the insert or the update; Telegram: "call" the first
\* call of the transition or a callback query without its message,
\* "answer" answer_callback_query).
Texts == {"x"}
ChatNotifications ==
    {n \in AbsoluteNotifications : Len(n.times) = 1}
        \cup {[kind |-> "rec", text |-> "n", week |-> 0, days |-> None,
               times |-> <<Time(8, 0), Time(9, 0)>>]}
ParseResults == {ParseOk(n) : n \in ChatNotifications} \cup {ParseErr}
ChatUpdates ==
    {MessageUpdate(t) : t \in Texts}
        \cup {CallbackUpdate(d) :
                d \in {Accept, Repeat, Cancel, Delete(<<1>>), Delete(<<>>)}}
\* The updates Telegram hands to Bot::run: every update from chat 1,
\* a message and its Accept from chat 2, a message and a Delete from the
\* stranger.
ChatDispatches ==
    {d \in Chats \X ChatUpdates :
        \/ d[1] = 1
        \/ d[1] = 2 /\ (d[2].kind = "message" \/ d[2].data.kind = "Accept")
        \/ d[1] = 3 /\ (d[2].kind = "message" \/ d[2].data.kind = "Delete")}
StoreFails == {0, 1}
TgFails == {"none", "call", "answer"}

NoHandled ==
    [chat_id |-> 0, state |-> Idle, update |-> NoUpdate, ok |-> FALSE,
     sent |-> FALSE, new_state |-> Idle, answer_text |-> None, parsed |-> None,
     inserted |-> FALSE, ids |-> <<>>]

NoInsert == [stored |-> <<>>, fail |-> 0, ok |-> FALSE, ids |-> <<>>]

\* No call of create_stored_notifications is under observation.
NoExpand == [notification |-> NoNotification, current_time |-> StartTime]
NoResult == [done |-> FALSE, stored |-> <<>>]

\* No CallbackQuery is under observation.
NoCodec ==
    [stage |-> "none", query |-> NoQuery, payload |-> <<>>,
     result |-> [ok |-> FALSE, data |-> NoQuery]]

\* The inputs of to_string and from_str taken alone: the queries of the
\* buttons (the ids an insert_event returned, none of them too, and ids of
\* two digits) and the strings a callback query can carry.
CodecIdLists ==
    {<<>>, <<10>>, <<12, 3>>} \cup {<<i>> : i \in Ids}
        \cup {<<i, j>> : i \in Ids, j \in Ids}
CodecQueries == {Repeat, Accept, Cancel} \cup {Delete(ids) : ids \in CodecIdLists}
CodecChars == {"1", ",", "+", "x"}
CodecStrings ==
    {<<>>} \cup {<<a>> : a \in CodecChars}
        \cup {<<a, b>> : a \in CodecChars, b \in CodecChars}
        \cup {<<a, b, c>> : a \in CodecChars, b \in CodecChars, c \in CodecChars}
CodecInputs ==
    {[NoCodec EXCEPT !.stage = "query", !.query = q] : q \in CodecQueries}
        \cup {[NoCodec EXCEPT !.stage = "payload", !.payload = p] : p \in CodecStrings}

\* The process after BotDeps::new: an empty table, no conversation, the
\* background loop and Bot::run about to start.
InitBot ==
    /\ events = <<>>
    /\ sqlite_sequence = 0
    /\ now = StartTime
    /\ ticks = 0
    /\ bg_pc = "get"
    /\ events_to_fire = <<>>
    /\ event_ids = <<>>
    /\ bg_i = 1
    /\ sent = [id \in Ids |-> 0]
    /\ cycle_batch = {}
    /\ cycle_sent = {}
    /\ cycle_failed = {}
    /\ loop_consumed = {}
    /\ user_deleted = {}
    /\ last_insert = NoInsert
    /\ state = [chat_id \in Chats |-> Idle]
    /\ state_channel = <<>>
    /\ handlers = <<>>
    /\ last_offset = 0
    /\ run_pc = "updates"
    /\ handled = NoHandled
    /\ tally = [parses |-> 0, creates |-> 0]

Init ==
    /\ InitBot
    /\ expand_input = NoExpand
    /\ expand_result = NoResult
    /\ codec = NoCodec

store == <<events, sqlite_sequence>>
clock == <<now, ticks>>
locals == <<events_to_fire, event_ids, bg_i>>
cycle == <<cycle_batch, cycle_sent, cycle_failed>>
history == <<sent, loop_consumed, user_deleted, last_insert>>
conversation ==
    <<state, state_channel, handlers, last_offset, run_pc, handled, tally>>
\* What the functions taken alone are observed on.
observed == <<expand_input, expand_result, codec>>

\* The clock advances.
Tick(step) ==
    /\ ticks < MaxTicks
    /\ now' = now + step
    /\ ticks' = ticks + 1
    /\ UNCHANGED <<conversation, observed, store, bg_pc, locals, cycle, history>>

\* run_one_background_loop: get_events_to_fire(Utc::now()) succeeds.
BgGetEvents ==
    /\ bg_pc = "get"
    /\ events_to_fire' = get_events_to_fire(events, now)
    /\ event_ids' = [i \in 1..Len(events_to_fire') |-> events_to_fire'[i].event_id]
    /\ bg_i' = 1
    /\ bg_pc' = IF events_to_fire' = <<>> THEN "delete" ELSE "send"
    /\ cycle_batch' = Range(event_ids')
    /\ cycle_sent' = {}
    /\ cycle_failed' = {}
    /\ UNCHANGED <<conversation, observed, store, clock, history>>

\* run_one_background_loop: get_events_to_fire fails; run_background logs
\* the error and sleeps.
BgGetEventsFail ==
    /\ bg_pc = "get"
    /\ bg_pc' = "sleep"
    /\ cycle_batch' = {}
    /\ cycle_sent' = {}
    /\ cycle_failed' = {}
    /\ UNCHANGED <<conversation, observed, store, clock, locals, history>>

\* Where the loop goes once the event at index i of the batch has been sent.
AfterSend(i, batch) == IF i >= Len(batch) THEN "delete" ELSE "send"

\* run_one_background_loop: send_message for the next event succeeds.
BgSendMessage ==
    /\ bg_pc = "send"
    /\ LET event == events_to_fire[bg_i]
       IN  /\ sent[event.event_id] < MaxSent
           /\ sent' = [sent EXCEPT ![event.event_id] = @ + 1]
           /\ cycle_sent' = cycle_sent \cup {event.event_id}
    /\ bg_pc' = AfterSend(bg_i, events_to_fire)
    /\ bg_i' = bg_i + 1
    /\ UNCHANGED <<conversation, observed, store, clock, events_to_fire, event_ids, cycle_batch,
                   cycle_failed, loop_consumed, user_deleted, last_insert>>

\* A loop that logs a failed send_message and goes on with the batch.
AfterSendErrorIgnored(i, batch) == AfterSend(i, batch)

\* A loop that ends when send_message fails.
AfterSendErrorStops(i, batch) == "stopped"

\* Where the loop goes when send_message fails for the event at index i:
\* the `?` returns the error from run_one_background_loop.
AfterSendError(i, batch) == "sleep"

\* run_one_background_loop: send_message for the next event fails.
BgSendMessageFail ==
    /\ bg_pc = "send"
    /\ cycle_failed' = cycle_failed \cup {events_to_fire[bg_i].event_id}
    /\ bg_pc' = AfterSendError(bg_i, events_to_fire)
    /\ IF bg_pc' = "sleep"
       THEN events_to_fire' = <<>> /\ event_ids' = <<>> /\ bg_i' = 1
       ELSE bg_i' = bg_i + 1 /\ UNCHANGED <<events_to_fire, event_ids>>
    /\ UNCHANGED <<conversation, observed, store, clock, cycle_batch, cycle_sent, history>>

\* The ids run_one_background_loop hands to delete_events.
IdsToDelete == event_ids

\* run_one_background_loop: delete_events(event_ids) succeeds and the
\* function returns Ok.
BgDeleteEvents ==
    /\ bg_pc = "delete"
    /\ events' = delete_events(events, IdsToDelete)
    /\ loop_consumed' = loop_consumed \cup Range(IdsToDelete)
    /\ bg_pc' = "sleep"
    /\ events_to_fire' = <<>>
    /\ event_ids' = <<>>
    /\ bg_i' = 1
    /\ UNCHANGED <<conversation, observed, sqlite_sequence, clock, cycle, sent, user_deleted, last_insert>>

\* run_one_background_loop: delete_events fails; nothing is updated.
BgDeleteEventsFail ==
    /\ bg_pc = "delete"
    /\ bg_pc' = "sleep"
    /\ events_to_fire' = <<>>
    /\ event_ids' = <<>>
    /\ bg_i' = 1
    /\ UNCHANGED <<conversation, observed, store, clock, cycle, history>>

\* run_background: the sleep of five seconds ends and the next cycle starts.
BgSleep ==
    /\ bg_pc = "sleep"
    /\ bg_pc' = "get"
    /\ UNCHANGED <<conversation, observed, store, clock, locals, cycle, history>>

\* The process stops in the middle of a cycle and is started again: the
\* database file stays, the loop starts over.
Restart ==
    /\ bg_pc \in {"send", "delete"}
    /\ bg_pc' = "get"
    /\ events_to_fire' = <<>>
    /\ event_ids' = <<>>
    /\ bg_i' = 1
    /\ UNCHANGED <<conversation, observed, store, clock, cycle, history>>

\* BotHandler::accept: insert_event(from.id, get_text(),
\* create_stored_notifications(Utc::now())).
AcceptInsert(user_id, notification, fail) ==
    LET stored == create_stored_notifications(notification, now)
        stmts == InsertStatements(user_id, get_text(notification), stored)
        r == insert_event(events, sqlite_sequence, user_id,
                          get_text(notification), stored, fail)
    IN  /\ fail \in 0..(Len(stmts) + 1)
        /\ Len(events) + Len(stmts) <= MaxRows
        /\ events' = r.events
        /\ sqlite_sequence' = r.sqlite_sequence
        /\ last_insert' = [stored |-> stored, fail |-> fail, ok |-> r.ok, ids |-> r.ids]
        /\ UNCHANGED <<conversation, observed, clock, bg_pc, locals, cycle, sent, loop_consumed, user_deleted>>

\* BotHandler::handle_callback_query, Delete(ids): delete_events(ids).
\* (When the call fails the table is left as it was.)
DeleteCallback(ids) ==
    /\ events' = delete_events(events, ids)
    /\ user_deleted' = user_deleted \cup Range(ids)
    /\ UNCHANGED <<conversation, observed, sqlite_sequence, clock, bg_pc, locals, cycle, sent,
                   loop_consumed, last_insert>>

----------------------------------------------------------------------------
(* src/bot.rs: the conversation state machine *)

\* BotHandler::accept. The rows are inserted before the message is edited:
\* a failing edit_message_text returns the error with the rows committed.
accept(rows, seq, from_id, notification, current_time, fail, tg) ==
    LET stored == create_stored_notifications(notification, current_time)
        r == insert_event(rows, seq, from_id, get_text(notification), stored, fail)
    IN  [result |-> IF ~r.ok \/ tg = "call"
                    THEN Err
                    ELSE Ok(Some("Notification accepted"), Idle),
         events |-> r.events,
         sqlite_sequence |-> r.sqlite_sequence,
         parsed |-> None,
         insert |-> [stored |-> stored, fail |-> fail, ok |-> r.ok, ids |-> r.ids]]

\* A transition that calls neither the store nor the parser (parsed is
\* the text the parser is given, if it is called).
Pure(rows, seq, result) ==
    [result |-> result, events |-> rows, sqlite_sequence |-> seq,
     parsed |-> None, insert |-> NoInsert]

\* A repeat that keeps the new notification and loses the text.
RepeatForgetsText(text, parse_result, tg) ==
    IF tg = "call" THEN Err
    ELSE IF parse_result.ok
    THEN Ok(Some("Request was repeated"), Parsed("", parse_result.notification))
    ELSE Ok(Some("Error while parsing command"), ParsedWithError(""))

\* BotHandler::repeat
repeat(text, parse_result, tg) ==
    IF tg = "call" THEN Err
    ELSE IF parse_result.ok
    THEN Ok(Some("Request was repeated"), Parsed(text, parse_result.notification))
    ELSE Ok(Some("Error while parsing command"), ParsedWithError(text))

\* A cancel that leaves a failed parse behind.
CancelToParsedWithError(tg) ==
    IF tg = "call" THEN Err ELSE Ok(Some("Canceled"), ParsedWithError(""))

\* BotHandler::cancel
cancel(tg) ==
    IF tg = "call" THEN Err ELSE Ok(Some("Canceled"), Idle)

\* An Accept of a failed parse that ends the conversation.
AcceptWithErrorToIdle(self_state) ==
    Ok(Some("Impossible to accept notification with errors"), Idle)

\* (state @ ParsedWithError, Accept)
AcceptWithError(self_state) ==
    Ok(Some("Impossible to accept notification with errors"), self_state)

\* A Delete that ends the conversation.
DeleteTransitionToIdle(self_state, fail, tg) ==
    IF fail # 0 \/ tg = "call" THEN Err
    ELSE Ok(Some("Notification deleted"), Idle)

\* (state, Delete(ids)): delete_events, then delete_message.
DeleteTransition(self_state, fail, tg) ==
    IF fail # 0 \/ tg = "call" THEN Err
    ELSE Ok(Some("Notification deleted"), self_state)

\* A fall-through arm that answers the user.
NoOpWithFeedback(self_state) == Ok(Some("Nothing to do"), self_state)

\* (state, _)
NoOp(self_state) == Ok(None, self_state)

\* The match of BotHandler::handle_callback_query: the transition of the
\* pair (state, data), with what it does to the table.
Transition(self_state, data, from_id, rows, seq, current_time, parse_result, fail, tg) ==
    CASE data.kind = "Cancel" ->
            Pure(rows, seq, cancel(tg))
      [] data.kind = "Repeat" /\ self_state.kind = "ParsedWithError" ->
            [Pure(rows, seq, repeat(self_state.text, parse_result, tg))
                EXCEPT !.parsed = Some(self_state.text)]
      [] data.kind = "Accept" /\ self_state.kind = "ParsedWithError" ->
            Pure(rows, seq, AcceptWithError(self_state))
      [] data.kind = "Accept" /\ self_state.kind = "Parsed" ->
            accept(rows, seq, from_id, self_state.notification, current_time, fail, tg)
      [] data.kind = "Repeat" /\ self_state.kind = "Parsed" ->
            [Pure(rows, seq, repeat(self_state.text, parse_result, tg))
                EXCEPT !.parsed = Some(self_state.text)]
      [] data.kind = "Delete" ->
            [Pure(rows, seq, DeleteTransition(self_state, fail, tg))
                EXCEPT !.events = IF fail = 0 THEN delete_events(rows, data.ids)
                                  ELSE rows]
      [] OTHER ->
            Pure(rows, seq, NoOp(self_state))

\* A handler that sends a state, Idle, when its transition returns an error.
HandleCallbackQuerySendsOnError(self_state, payload, from_id, rows, seq, current_time, parse_result, fail, tg) ==
    LET data == from_str(payload)
        t == Transition(self_state, data.data, from_id, rows, seq, current_time,
                        parse_result, fail, tg)
    IN  [ok |-> data.ok /\ t.result.ok /\ tg # "answer",
         sent |-> TRUE,
         new_state |-> t.result.state,
         answer_text |-> None,
         parsed |-> t.parsed,
         events |-> t.events,
         sqlite_sequence |-> t.sqlite_sequence,
         insert |-> t.insert]

\* BotHandler::handle_callback_query: the transition, state_channel.send of
\* the new state when the transition returned Ok, answer_callback_query.
handle_callback_query(self_state, payload, from_id, rows, seq, current_time, parse_result, fail, tg) ==
    LET data == from_str(payload)
        t == Transition(self_state, data.data, from_id, rows, seq, current_time,
                        parse_result, fail, tg)
    IN  IF ~data.ok
        THEN [ok |-> FALSE, sent |-> FALSE, new_state |-> Idle,
              answer_text |-> None, parsed |-> None, events |-> rows,
              sqlite_sequence |-> seq, insert |-> NoInsert]
        ELSE [ok |-> t.result.ok /\ tg # "answer",
              sent |-> t.result.ok,
              new_state |-> t.result.state,
              answer_text |-> IF t.result.ok /\ tg # "answer"
                              THEN t.result.answer_text ELSE None,
              parsed |-> t.parsed,
              events |-> t.events,
              sqlite_sequence |-> t.sqlite_sequence,
              insert |-> t.insert]

\* BotHandler::handle_message: parse, send_message of the prompt, then
\* state_channel.send.
handle_message(text, rows, seq, parse_result, tg) ==
    [ok |-> tg # "call",
     sent |-> tg # "call",
     new_state |-> IF tg = "call" THEN Idle
                   ELSE IF parse_result.ok THEN Parsed(text, parse_result.notification)
                   ELSE ParsedWithError(text),
     answer_text |-> None,
     parsed |-> Some(text),
     events |-> rows,
     sqlite_sequence |-> seq,
     insert |-> NoInsert]

\* BotHandler::handle_update
handle_update(handler, rows, seq, current_time, parse_result, fail, tg) ==
    IF handler.update.kind = "callback_query"
    THEN handle_callback_query(handler.state, handler.update.payload, handler.chat_id,
                               rows, seq, current_time, parse_result, fail, tg)
    ELSE handle_message(handler.update.text, rows, seq, parse_result, tg)

\* The collaborators a handler calls: the parser, the store, Telegram
\* before state_channel.send, answer_callback_query after it.
CallsParser(handler) ==
    \/ handler.update.kind = "message"
    \/ /\ handler.update.data.kind = "Repeat"
       /\ handler.state.kind \in {"Parsed", "ParsedWithError"}
CallsStore(handler) ==
    /\ handler.update.kind = "callback_query"
    /\ \/ handler.update.data.kind = "Accept" /\ handler.state.kind = "Parsed"
       \/ handler.update.data.kind = "Delete"
CallsTg(handler) ==
    \/ CallsParser(handler)
    \/ CallsStore(handler)
    \/ handler.update.kind = "callback_query" /\ handler.update.data.kind = "Cancel"

\* The outcomes of the calls a handler makes: what the parser returns,
\* whether the store fails, which call of Telegram fails.
Outcomes(handler) ==
    {c \in ParseResults \X StoreFails \X TgFails :
        /\ c[1] # ParseErr => CallsParser(handler)
        /\ c[2] # 0 => CallsStore(handler)
        /\ c[3] = "call" => CallsTg(handler) /\ c[2] = 0
        /\ c[3] = "answer" =>
                /\ handler.update.kind = "callback_query"
                /\ handler.update.data.kind # "Invalid"
                /\ c[2] = 0}

\* The sequence without its i-th element.
Remove(s, i) == [k \in 1..(Len(s) - 1) |-> IF k < i THEN s[k] ELSE s[k + 1]]

\* A repository every chat id is valid for.
IsChatIdValidForAll(chat_id) == TRUE

\* UserRepository::is_chat_id_valid
is_chat_id_valid(chat_id) == chat_id \in Users

\* A snapshot that is Idle whatever the map holds.
SnapshotIdle(map, chat_id) == Idle

\* state.get(&chat_id).cloned().unwrap_or(State::Idle): a chat without
\* an entry is a chat whose entry is Idle.
Snapshot(map, chat_id) == map[chat_id]

\* An insert that keeps the entry a chat already has.
StateInsertIfIdle(map, chat_id, new_state) ==
    IF map[chat_id] = Idle THEN [map EXCEPT ![chat_id] = new_state] ELSE map

\* state.insert(chat_id, new_state)
StateInsert(map, chat_id, new_state) == [map EXCEPT ![chat_id] = new_state]

\* Bot::run, the for loop: last_offset goes past the update; an update of
\* a valid chat is given to a new BotHandler with the chat's state of the
\* map, an update of another chat is skipped.
RunDispatch(chat_id, update) ==
    /\ run_pc = "updates"
    /\ last_offset < MaxUpdates
    /\ is_chat_id_valid(chat_id) => Len(handlers) < MaxHandlers
    /\ last_offset' = last_offset + 1
    /\ handlers' =
            IF is_chat_id_valid(chat_id)
            THEN Append(handlers,
                        [chat_id |-> chat_id, state |-> Snapshot(state, chat_id),
                         update |-> update])
            ELSE handlers
    /\ UNCHANGED <<store, clock, bg_pc, locals, cycle, history, observed,
                   state, state_channel, run_pc, handled, tally>>

\* Bot::run: the updates of this poll have been spawned (or get_updates
\* failed); the loop goes on to the channel.
RunEndUpdates ==
    /\ run_pc = "updates"
    /\ run_pc' = "recv"
    /\ UNCHANGED <<store, clock, bg_pc, locals, cycle, history, observed,
                   state, state_channel, handlers, last_offset, handled, tally>>

\* Bot::run: try_recv returns a message; state.insert(chat_id, new_state).
RunReceive ==
    /\ run_pc = "recv"
    /\ state_channel # <<>>
    /\ state' = StateInsert(state, Head(state_channel).chat_id,
                             Head(state_channel).new_state)
    /\ state_channel' = Tail(state_channel)
    /\ UNCHANGED <<store, clock, bg_pc, locals, cycle, history, observed,
                   handlers, last_offset, run_pc, handled, tally>>

\* Bot::run: try_recv finds the channel empty; sleep, then the next poll.
RunSleep ==
    /\ run_pc = "recv"
    /\ state_channel = <<>>
    /\ run_pc' = "updates"
    /\ UNCHANGED <<store, clock, bg_pc, locals, cycle, history, observed,
                   state, state_channel, handlers, last_offset, handled, tally>>

\* A spawned BotHandler runs handle_update. A message of the channel
\* carries, beside (chat_id, new_state), the update it comes from.
HandleUpdate(i, parse_result, fail, tg) ==
    /\ i \in DOMAIN handlers
    /\ <<parse_result, fail, tg>> \in Outcomes(handlers[i])
    /\ handlers' = Remove(handlers, i)
    /\ LET handler == handlers[i]
           r == handle_update(handler, events, sqlite_sequence, now,
                              parse_result, fail, tg)
       IN  /\ Len(r.events) <= MaxRows
           /\ events' = r.events
           /\ sqlite_sequence' = r.sqlite_sequence
           /\ last_insert' = IF r.insert = NoInsert THEN last_insert ELSE r.insert
           /\ user_deleted' =
                IF handler.update.kind = "callback_query"
                    /\ handler.update.data.kind = "Delete" /\ fail = 0
                THEN user_deleted \cup Range(handler.update.data.ids)
                ELSE user_deleted
           /\ state_channel' =
                IF r.sent
                THEN Append(state_channel,
                            [chat_id |-> handler.chat_id, new_state |-> r.new_state,
                             update |-> handler.update])
                ELSE state_channel
           /\ handled' =
                [chat_id |-> handler.chat_id, state |-> handler.state,
                 update |-> handler.update, ok |-> r.ok, sent |-> r.sent,
                 new_state |-> r.new_state, answer_text |-> r.answer_text,
                 parsed |-> r.parsed, inserted |-> r.insert.ok,
                 ids |-> r.insert.ids]
           /\ tally' =
                [parses |-> tally.parses +
                    (IF r.sent /\ r.parsed # None /\ r.new_state.kind = "Parsed"
                     THEN 1 ELSE 0),
                 creates |-> tally.creates +
                    (IF r.insert.ok /\ r.insert.ids # <<>> THEN 1 ELSE 0)]
    /\ UNCHANGED <<clock, bg_pc, locals, cycle, sent, loop_consumed, observed,
                   state, last_offset, run_pc>>

\* The firing loop running beside the handlers.
Next ==
    \/ \E step \in TickSteps : Tick(step)
    \/ BgGetEvents
    \/ BgGetEventsFail
    \/ BgSendMessage
    \/ BgSendMessageFail
    \/ BgDeleteEvents
    \/ BgDeleteEventsFail
    \/ BgSleep
    \/ Restart
    \/ \E a \in LoopAccepts : AcceptInsert(a[1], a[2], 0)
    \/ \E ids \in LoopDeleteIdLists : DeleteCallback(ids)

Spec == Init /\ [][Next]_vars

\* The store under the handlers' calls alone.
NextStore ==
    \/ Tick(HalfDay)
    \/ \E user_id \in Users, notification \in Notifications, fail \in 0..(MaxRows + 1) :
            AcceptInsert(user_id, notification, fail)
    \/ \E ids \in DeleteIdLists : DeleteCallback(ids)

SpecStore == Init /\ [][NextStore]_vars

\* The table under the Accepts of whatever the parser returned.
NextRecords ==
    \/ \E user_id \in Users, notification \in RecordNotifications, fail \in {0, 1} :
            AcceptInsert(user_id, notification, fail)
    \/ \E ids \in DeleteIdLists : DeleteCallback(ids)

SpecRecords == Init /\ [][NextRecords]_vars

\* The conversations: Bot::run and the handlers it spawns.
NextChat ==
    \/ \E d \in ChatDispatches : RunDispatch(d[1], d[2])
    \/ RunEndUpdates
    \/ RunReceive
    \/ RunSleep
    \/ \E i \in 1..MaxHandlers, parse_result \in ParseResults,
          fail \in StoreFails, tg \in TgFails :
            HandleUpdate(i, parse_result, fail, tg)

SpecChat == Init /\ [][NextChat]_vars

\* The two loops of main side by side: run_background in its task and
\* Bot::run with the handlers it spawns, for one user who sends a text
\* and accepts it.
LiveDispatches == {<<1, MessageUpdate("x")>>, <<1, CallbackUpdate(Accept)>>}
LiveParseResults ==
    {ParseOk(n) : n \in {m \in AbsoluteNotifications : Len(m.times) = 1}}
        \cup {ParseErr}

NextLive ==
    \/ Tick(HalfDay)
    \/ BgGetEvents
    \/ BgGetEventsFail
    \/ BgSendMessage
    \/ BgSendMessageFail
    \/ BgDeleteEvents
    \/ BgDeleteEventsFail
    \/ BgSleep
    \/ \E d \in LiveDispatches : RunDispatch(d[1], d[2])
    \/ RunEndUpdates
    \/ RunReceive
    \/ RunSleep
    \/ \E i \in 1..MaxHandlers, parse_result \in LiveParseResults,
          fail \in StoreFails :
            HandleUpdate(i, parse_result, fail, "none")

\* Every awaited call of a loop returns, with Ok or with an error, and
\* every sleep ends: the runtime keeps polling the two tasks.
Fairness ==
    /\ WF_vars(BgGetEvents \/ BgGetEventsFail)
    /\ WF_vars(BgSendMessage \/ BgSendMessageFail)
    /\ WF_vars(BgDeleteEvents \/ BgDeleteEventsFail)
    /\ WF_vars(BgSleep)
    /\ WF_vars(RunEndUpdates)
    /\ WF_vars(RunReceive)
    /\ WF_vars(RunSleep)

SpecLive == Init /\ [][NextLive]_vars /\ Fairness

\* Notification::create_stored_notifications is called with the input
\* under observation.
Expand ==
    /\ ~expand_result.done
    /\ expand_input # NoExpand
    /\ expand_result' =
            [done |-> TRUE,
             stored |-> create_stored_notifications(expand_input.notification,
                                                    expand_input.current_time)]
    /\ UNCHANGED <<store, clock, bg_pc, locals, cycle, history, conversation,
                   expand_input, codec>>

\* The expansion taken alone, for every input.
InitExpand ==
    /\ InitBot
    /\ expand_input \in ExpandInputs
    /\ expand_result = NoResult
    /\ codec = NoCodec

NextExpand == Expand

SpecExpand == InitExpand /\ [][NextExpand]_vars

\* BotHandler::accept makes the Cancel button: CallbackQuery::to_string of
\* the query under observation is the callback data of the button.
Encode ==
    /\ codec.stage = "query"
    /\ codec' = [codec EXCEPT !.stage = "payload", !.payload = to_string(codec.query)]
    /\ UNCHANGED <<store, clock, bg_pc, locals, cycle, history, conversation,
                   expand_input, expand_result>>

\* BotHandler::handle_callback_query parses the callback data it is given.
Parse ==
    /\ codec.stage = "payload"
    /\ codec' = [codec EXCEPT !.stage = "parsed", !.result = from_str(codec.payload)]
    /\ UNCHANGED <<store, clock, bg_pc, locals, cycle, history, conversation,
                   expand_input, expand_result>>

\* The callback data taken alone, for every query and every string.
InitCodec ==
    /\ InitBot
    /\ expand_input = NoExpand
    /\ expand_result = NoResult
    /\ codec \in CodecInputs

NextCodec == Encode \/ Parse

SpecCodec == InitCodec /\ [][NextCodec]_vars

----------------------------------------------------------------------------
(* Helpers of the properties *)

\* The row as it was before it was consumed.
MarkLive(row) == [row EXCEPT !.is_deleted = 0]

\* The row of the table with the given id (ids are unique, see C9).
RowOf(id) == events[CHOOSE i \in DOMAIN events : events[i].id = id]
HasRow(id) == \E i \in DOMAIN events : events[i].id = id
ReturnedIds(rows, t) ==
    {get_events_to_fire(rows, t)[i].event_id : i \in DOMAIN get_events_to_fire(rows, t)}

----------------------------------------------------------------------------
(* The firing loop: C1 - C4, under Spec *)

\* C1: in one cycle of the firing loop, when the delivery of one record of
\* the batch fails, only that record stays unconsumed: every other record of
\* the batch is delivered in this cycle, and every delivered record of the
\* batch is consumed when the cycle ends.
C1_OnlyFailedRecordLeft ==
    (bg_pc = "sleep" /\ cycle_failed # {}) =>
        /\ \A id \in cycle_batch \ cycle_failed : id \in cycle_sent
        /\ \A id \in cycle_sent : RowOf(id).is_deleted = 1

\* A cycle that ended on a failed delivery although the batch held more.
C1_Witness ==
    /\ bg_pc = "sleep"
    /\ cycle_failed # {}
    /\ cycle_batch \ cycle_failed # {}

C3_DeliveredExactlyOnce ==
    \A id \in Ids : sent[id] <= 1

\* C3, amended: a record is delivered at most once in a cycle and never
\* after the firing loop has consumed it; at the time the loop consumes it,
\* it has been delivered at least once.
C3_NoDeliveryAfterLoopConsume ==
    [][ /\ \A id \in Ids : sent'[id] > sent[id] =>
                id \notin cycle_sent /\ id \notin loop_consumed
        /\ \A id \in loop_consumed' : sent'[id] >= 1
       ]_vars

\* A record that was delivered twice before the loop consumed it.
C3_Witness ==
    \E id \in loop_consumed : sent[id] >= 2 /\ RowOf(id).is_deleted = 1

\* The instants of the four weeks after t, half a day apart.
InstantsAfter(t) == {t + k * HalfDay : k \in 1..56}

\* C4: a recurrent record that was delivered, whose cycle has ended and that
\* no user deleted is due again at every later instant of a matching weekday
\* at which its time of day has passed.
C4_RecurrentFiresEveryWeek ==
    \A i \in DOMAIN events :
        LET r == events[i]
        IN  (/\ r.kind = "recurrent"
             /\ sent[r.id] >= 1
             /\ r.id \notin user_deleted
             /\ bg_pc \in {"sleep", "get"}) =>
                \A t \in InstantsAfter(now) :
                    (Weekday(t) = r.day /\ r.hour * 60 + r.minute < MinutesOfDay(t))
                        => r.id \in ReturnedIds(events, t)

\* A recurrent record was delivered and its cycle has ended.
C4_Witness ==
    \E i \in DOMAIN events :
        /\ events[i].kind = "recurrent"
        /\ events[i].id \in cycle_sent
        /\ events[i].id \notin user_deleted
        /\ bg_pc = "sleep"

----------------------------------------------------------------------------
(* The store: C5 - C10, under SpecStore *)

\* The instants the due query is asked at: the clock's values and the
\* instants around the times of day and the weekdays of the records.
ProbeTimes ==
    {StartTime + k * HalfDay : k \in 0..4}
        \cup {StartTime + SecondsPerWeek, StartTime + SecondsPerWeek + HalfDay}
        \cup {d * SecondsPerDay + h * SecondsPerHour + x :
                d \in {0, 1, 2}, h \in {7, 8}, x \in {0, 59, 60}}

\* The due condition as the specification words it.
IsDue(r, t) ==
    /\ r.is_deleted = 0
    /\ \/ r.kind = "absolute" /\ r.event_time < t
       \/ /\ r.kind = "recurrent"
          /\ r.day = Weekday(t)
          /\ r.hour * 60 + r.minute < MinutesOfDay(t)

RowCount(sn) ==
    IF sn.kind = "Absolute" THEN 1
    ELSE IF sn.days = None THEN 0 ELSE Len(sn.days[1])

RECURSIVE OffsetOf(_, _)
\* The number of rows made of the stored notifications before the j-th.
OffsetOf(stored, j) ==
    IF j = 1 THEN 0 ELSE OffsetOf(stored, j - 1) + RowCount(stored[j - 1])

\* The ids, among those insert_event returned, of the j-th stored notification.
CreatedIds(stored, ids, j) ==
    {ids[OffsetOf(stored, j) + k] : k \in 1..RowCount(stored[j])}

\* The firing instant of a stored notification lies before t.
Passed(sn, t) ==
    IF sn.kind = "Absolute" THEN sn.time < t
    ELSE /\ sn.days # None
         /\ Weekday(t) \in Range(sn.days[1])
         /\ sn.hours * 60 + sn.minutes < MinutesOfDay(t)

C7_ConsumeIdempotent ==
    \A ids \in IdLists :
        LET once == delete_events(events, ids)
            twice == delete_events(once, ids)
        IN  /\ twice = once
            /\ Len(once) = Len(events)
            /\ \A i \in DOMAIN events :
                    /\ events[i].id \notin Range(ids) => once[i] = events[i]
                    /\ events[i].id \in Range(ids) =>
                            once[i] = [events[i] EXCEPT !.is_deleted = 1]
                    /\ events[i].is_deleted = 1 => once[i].is_deleted = 1

\* A Delete callback has named a consumed id and an id that no row has,
\* and another row is still non-consumed.
C7_Witness ==
    /\ \E id \in user_deleted : HasRow(id) /\ RowOf(id).is_deleted = 1
    /\ \E id \in user_deleted : ~HasRow(id)
    /\ \E i \in DOMAIN events : events[i].is_deleted = 0

\* The rows at the end of the table are the given statements, in order,
\* non-consumed, under the given ids.
TailIs(rows, stmts, ids) ==
    /\ Len(ids) = Len(stmts)
    /\ Len(rows) >= Len(stmts)
    /\ \A k \in DOMAIN stmts :
            rows[Len(rows) - Len(stmts) + k] = [id |-> ids[k]] @@ stmts[k]

\* C8: a failing insert_event (a failing statement or commit) leaves the
\* table as it was and returns no ids; a succeeding one adds every row of
\* the call, non-consumed, and changes no other row.
C8_CreateAllOrNothing ==
    [][ \A user_id \in Users, notification \in Notifications :
            LET fail == last_insert'.fail
                stored == create_stored_notifications(notification, now)
            IN  (stored = last_insert'.stored
                    /\ AcceptInsert(user_id, notification, fail)) =>
                    LET stmts == InsertStatements(user_id, get_text(notification),
                                                  stored)
                    IN  IF fail # 0
                        THEN /\ events' = events
                             /\ ~last_insert'.ok
                             /\ last_insert'.ids = <<>>
                        ELSE /\ last_insert'.ok
                             /\ Len(events') = Len(events) + Len(stmts)
                             /\ SubSeq(events', 1, Len(events)) = events
                             /\ TailIs(events', stmts, last_insert'.ids)
                             /\ \A k \in DOMAIN stmts : stmts[k].is_deleted = 0
       ]_vars

\* An insert_event failed after its first statement had been executed.
C8_Witness ==
    /\ ~last_insert.ok
    /\ last_insert.fail >= 2
    /\ events # <<>>

\* C9, as claimed: a successful insert_event returns one id for each record
\* of its input list.
C9_OneIdPerInputRecord ==
    last_insert.ok => Len(last_insert.ids) = Len(last_insert.stored)

\* C9, amended: a successful insert_event returns one id for each row it
\* inserts, in the order of insertion: one for an absolute record, one for
\* each day of a recurrent record (none without days), those of an earlier
\* input record first; the ids are pairwise distinct and are the id of no
\* row of an earlier call.
C9_OneIdPerInsertedRow ==
    LET stored == last_insert.stored
        ids == last_insert.ids
        old == Len(events) - Len(ids)
    IN  last_insert.ok =>
            /\ Len(ids) = OffsetOf(stored, Len(stored) + 1)
            /\ old >= 0
            /\ \A k, l \in DOMAIN ids : k # l => ids[k] # ids[l]
            /\ \A k \in DOMAIN ids : \A i \in 1..old : events[i].id # ids[k]
            /\ \A j \in DOMAIN stored :
                    \A k \in 1..RowCount(stored[j]) :
                        LET row == events[old + OffsetOf(stored, j) + k]
                        IN  /\ row.id = ids[OffsetOf(stored, j) + k]
                            /\ IF stored[j].kind = "Absolute"
                               THEN /\ row.kind = "absolute"
                                    /\ row.event_time = stored[j].time
                               ELSE /\ row.kind = "recurrent"
                                    /\ row.day = stored[j].days[1][k]
                                    /\ row.hour = stored[j].hours
                                    /\ row.minute = stored[j].minutes

\* After an earlier call, a call has returned more ids than it was given
\* records.
C9_Witness ==
    /\ last_insert.ok
    /\ Len(last_insert.ids) > Len(last_insert.stored)
    /\ Len(events) > Len(last_insert.ids)

\* The last insert_event was given recurrent records with days only.
LastInsertRecurrent ==
    /\ last_insert.ok
    /\ last_insert.stored # <<>>
    /\ \A j \in DOMAIN last_insert.stored :
            /\ last_insert.stored[j].kind = "Recurrent"
            /\ last_insert.stored[j].days # None
            /\ last_insert.stored[j].days[1] # <<>>

----------------------------------------------------------------------------
(* The conversations: C11, C15 - C20, under SpecChat *)

\* The handler at index i is about to handle a callback query with data of
\* the given kind.
HandlesData(i, kind) ==
    /\ i \in DOMAIN handlers
    /\ handlers[i].update.kind = "callback_query"
    /\ handlers[i].update.data.kind = kind

\* The step sends (chat_id, new_state) for the handler at index i.
Sends(i, new_state) ==
    state_channel' = Append(state_channel,
                            [chat_id |-> handlers[i].chat_id,
                             new_state |-> new_state,
                             update |-> handlers[i].update])

\* The last update handled was a callback query with this data, in a state
\* of this kind.
Handled(data, kind) ==
    /\ handled.update = CallbackUpdate(data)
    /\ handled.state.kind = kind

\* Nothing is on its way: no handler in flight, no message in the channel.
Quiet == handlers = <<>> /\ state_channel = <<>>

\* C11: Accept in a Parsed state whose notification is recurrent without
\* days inserts no row and returns no ids, whatever the times; when the
\* calls of the handler succeed it is not an error, the user is told that
\* the notification is accepted and the new state sent is Idle.
C11_AcceptWithoutDays ==
    [][ \A i \in 1..MaxHandlers, pr \in ParseResults, f \in StoreFails, tg \in TgFails :
            (/\ HandlesData(i, "Accept")
             /\ handlers[i].state.kind = "Parsed"
             /\ handlers[i].state.notification.kind = "rec"
             /\ handlers[i].state.notification.days = None
             /\ HandleUpdate(i, pr, f, tg)) =>
                /\ events' = events
                /\ handled'.ids = <<>>
                /\ InsertStatements(handlers[i].chat_id,
                        get_text(handlers[i].state.notification),
                        create_stored_notifications(handlers[i].state.notification, now))
                     = <<>>
                /\ (f = 0 /\ tg = "none") =>
                        /\ handled'.ok
                        /\ handled'.inserted
                        /\ handled'.answer_text = Some("Notification accepted")
                        /\ Sends(i, Idle)
       ]_vars

\* A recurrent notification without days was accepted: the table is still
\* empty and the chat is Idle.
C11_Witness ==
    /\ Handled(Accept, "Parsed")
    /\ handled.state.notification.kind = "rec"
    /\ handled.state.notification.days = None
    /\ Len(handled.state.notification.times) = 2
    /\ handled.ok
    /\ handled.ids = <<>>
    /\ Quiet
    /\ events = <<>>
    /\ state[handled.chat_id] = Idle

\* C15: Accept in a Parsed state gives the store the records of the
\* expansion of the notification at now, with the acting user as the owner
\* and the text of the notification, and the state sent is Idle; the
\* records are created if and only if the state becomes Idle.
C15_AcceptCreatesIffIdle ==
    Handled(Accept, "Parsed") =>
        /\ handled.inserted <=> (handled.sent /\ handled.new_state = Idle)
        /\ handled.inserted =>
                /\ last_insert.stored =
                        create_stored_notifications(handled.state.notification, now)
                /\ \A k \in DOMAIN handled.ids :
                        /\ HasRow(handled.ids[k])
                        /\ RowOf(handled.ids[k]).user_id = handled.chat_id
                        /\ RowOf(handled.ids[k]).event_text =
                                get_text(handled.state.notification)

\* An Accept has inserted its rows and returned an error: the chat is
\* still in the Parsed state and nothing is on its way to change that.
C15_Witness ==
    /\ Handled(Accept, "Parsed")
    /\ handled.inserted
    /\ handled.ids # <<>>
    /\ \A k \in DOMAIN handled.ids : HasRow(handled.ids[k])
    /\ ~handled.sent
    /\ ~handled.ok
    /\ Quiet
    /\ state[handled.chat_id] = handled.state

\* C16: Accept in a ParsedWithError state calls neither the parser nor the
\* store, answers the callback query with the rejection and sends the same
\* ParsedWithError state, with its text, as the new state.
C16_AcceptWithErrorRejected ==
    [][ \A i \in 1..MaxHandlers, pr \in ParseResults, f \in StoreFails, tg \in TgFails :
            (/\ HandlesData(i, "Accept")
             /\ handlers[i].state.kind = "ParsedWithError"
             /\ HandleUpdate(i, pr, f, tg)) =>
                /\ events' = events
                /\ sqlite_sequence' = sqlite_sequence
                /\ handled'.parsed = None
                /\ Sends(i, handlers[i].state)
                /\ handlers[i].state = ParsedWithError(handlers[i].state.text)
                /\ tg = "none" =>
                        /\ handled'.ok
                        /\ handled'.answer_text =
                            Some("Impossible to accept notification with errors")
       ]_vars

\* An Accept of a failed parse was answered and its state committed: the
\* chat is in the same ParsedWithError state.
C16_Witness ==
    /\ Handled(Accept, "ParsedWithError")
    /\ handled.ok
    /\ handled.answer_text # None
    /\ Quiet
    /\ state[handled.chat_id] = handled.state
    /\ state[handled.chat_id].text \in Texts

\* C17: Cancel, in every state, leaves the table as it is and calls no
\* parser; when delete_message succeeds the new state sent is Idle, and
\* when it fails no state is sent.
C17_CancelToIdle ==
    [][ \A i \in 1..MaxHandlers, pr \in ParseResults, f \in StoreFails, tg \in TgFails :
            (HandlesData(i, "Cancel") /\ HandleUpdate(i, pr, f, tg)) =>
                /\ events' = events
                /\ sqlite_sequence' = sqlite_sequence
                /\ handled'.parsed = None
                /\ tg # "call" => Sends(i, Idle)
                /\ tg = "call" => state_channel' = state_channel
                /\ tg = "none" => handled'.ok
       ]_vars

\* A Cancel of a pending parse was committed: the chat is Idle.
C17_Witness ==
    /\ Handled(Cancel, "Parsed")
    /\ handled.ok
    /\ Quiet
    /\ state[handled.chat_id] = Idle

\* The step receives the message of a Delete handler from the channel.
ReceivesDelete ==
    /\ RunReceive
    /\ Head(state_channel).update.kind = "callback_query"
    /\ Head(state_channel).update.data.kind = "Delete"

\* C18, as claimed: when the state sent by a Delete is committed, the chat
\* has the state it had just before the commit.
C18_DeleteKeepsCommittedState ==
    [][ReceivesDelete => state' = state]_vars

\* C18, amended: Delete(ids) marks the rows with the given ids, and no
\* other row, consumed, and sends the state the chat had when the update
\* was dispatched; the commit gives the chat that state, whatever was
\* committed for the chat since the dispatch.
C18_DeleteCommitsDispatchState ==
    [][ /\ \A i \in 1..MaxHandlers, pr \in ParseResults, f \in StoreFails,
              tg \in TgFails :
                (HandlesData(i, "Delete") /\ HandleUpdate(i, pr, f, tg)) =>
                    /\ Len(events') = Len(events)
                    /\ \A k \in DOMAIN events :
                            events'[k] =
                                IF f = 0 /\ events[k].id \in Range(handlers[i].update.data.ids)
                                THEN [events[k] EXCEPT !.is_deleted = 1]
                                ELSE events[k]
                    /\ (f = 0 /\ tg # "call") => Sends(i, handlers[i].state)
                    /\ (f # 0 \/ tg = "call") => state_channel' = state_channel
        /\ ReceivesDelete =>
                state' = [state EXCEPT ![Head(state_channel).chat_id] =
                                            Head(state_channel).new_state]
       ]_vars

\* A Delete has consumed a row and its state was committed.
C18_Witness ==
    /\ handled.update.kind = "callback_query"
    /\ handled.update.data.kind = "Delete"
    /\ handled.sent
    /\ \E k \in DOMAIN events :
            /\ events[k].id \in Range(handled.update.data.ids)
            /\ events[k].is_deleted = 1
    /\ Quiet
    /\ state[handled.chat_id] = handled.new_state

\* C19: Repeat in a Parsed or ParsedWithError state gives the parser the
\* text of the state and sends Parsed with that text and the new
\* notification when the parser succeeds, ParsedWithError with that text
\* when it fails; the table is left as it is.
C19_RepeatKeepsText ==
    [][ \A i \in 1..MaxHandlers, pr \in ParseResults, f \in StoreFails, tg \in TgFails :
            (/\ HandlesData(i, "Repeat")
             /\ handlers[i].state.kind \in {"Parsed", "ParsedWithError"}
             /\ HandleUpdate(i, pr, f, tg)) =>
                /\ events' = events
                /\ sqlite_sequence' = sqlite_sequence
                /\ handled'.parsed = Some(handlers[i].state.text)
                /\ tg # "call" =>
                        Sends(i, IF pr.ok
                                 THEN Parsed(handlers[i].state.text, pr.notification)
                                 ELSE ParsedWithError(handlers[i].state.text))
                /\ tg = "call" => state_channel' = state_channel
       ]_vars

\* A Repeat of a failed parse has succeeded and was committed: the chat is
\* Parsed with the text of the failed parse.
C19_Witness ==
    /\ Handled(Repeat, "ParsedWithError")
    /\ handled.ok
    /\ handled.new_state.kind = "Parsed"
    /\ handled.new_state.text = handled.state.text
    /\ handled.state.text \in Texts
    /\ Quiet
    /\ state[handled.chat_id] = handled.new_state

\* The states and the actions of the transition table.
TableStates ==
    {Idle} \cup {Parsed(t, n) : t \in Texts, n \in ChatNotifications}
           \cup {ParsedWithError(t) : t \in Texts}
TableActions == {Accept, Repeat, Cancel, Delete(<<1>>)}

\* C20: every pair of a state and an action has a transition (looked at
\* whenever an update is dispatched), which returns Ok with an answer and a
\* state when the data of the callback query names an action and the calls
\* it makes succeed;
\* Accept and Repeat in the Idle state call neither the parser nor the
\* store, answer without a text and send the Idle state.
C20_TransitionTotal ==
    [][ /\ last_offset' # last_offset =>
            \A st \in TableStates, d \in TableActions :
                LET t == Transition(st, d, 1, events, sqlite_sequence, now,
                                    ParseErr, 0, "none")
                IN  /\ t.result.ok
                    /\ t.result.state \in TableStates
        /\ \A i \in DOMAIN handlers :
              (/\ handlers[i].update.kind = "callback_query"
               /\ handlers[i].update.data.kind # "Invalid"
               /\ handlers' = Remove(handlers, i)) =>
              \A pr \in ParseResults, f \in StoreFails, tg \in TgFails :
                (/\ (f = 0 /\ tg = "none") \/ handlers[i].state = Idle
                 /\ HandleUpdate(i, pr, f, tg)) =>
                    /\ (f = 0 /\ tg = "none") =>
                            /\ handled'.ok
                            /\ Sends(i, handled'.new_state)
                    /\ (/\ handlers[i].state = Idle
                        /\ handlers[i].update.data.kind \in {"Accept", "Repeat"}) =>
                            /\ events' = events
                            /\ sqlite_sequence' = sqlite_sequence
                            /\ handled'.parsed = None
                            /\ handled'.answer_text = None
                            /\ Sends(i, Idle)
                            /\ tg = "none" => handled'.ok
       ]_vars

\* An Accept in the Idle state was handled and committed while the other
\* chat has a pending parse.
C20_Witness ==
    /\ Handled(Accept, "Idle")
    /\ handled.ok
    /\ handled.answer_text = None
    /\ Quiet
    /\ state[handled.chat_id] = Idle
    /\ \E c \in Users : state[c].kind = "Parsed"

----------------------------------------------------------------------------
(* The expansion of a Relative notification: C12 - C14, under SpecExpand *)

\* The week an instant lies in, counted in weeks that start on Monday.
WeekOf(t) == t \div SecondsPerWeek
\* The day an instant lies in, counted from the first Monday.
DayOf(t) == t \div SecondsPerDay

\* The week offset the roll-over rule gives for the weekday dow.
EffectiveWeek(n, dow) ==
    IF n.week = 0 /\ \E i \in DOMAIN n.days : n.days[i] <= dow
    THEN 1 ELSE n.week

\* The (weekday, time) pairs of a notification: weekday-major, in the
\* order of the lists.
Pairs(n) ==
    [k \in 1..(Len(n.days) * Len(n.times)) |->
        [day |-> n.days[((k - 1) \div Len(n.times)) + 1],
         time |-> n.times[((k - 1) % Len(n.times)) + 1]]]
ValidPairs(n) ==
    SelectSeq(Pairs(n), LAMBDA p : p.time.hours <= 23 /\ p.time.minutes <= 59)

\* A Relative notification has been expanded.
ExpandedRelative ==
    /\ expand_result.done
    /\ expand_input.notification.kind = "rel"

\* C12: the records of a Relative notification lie in the week that is
\* one week after the current one when week = 0 and some listed day is at
\* or before the weekday of now, and week weeks after the current one
\* otherwise; this holds for every record, those of the days still ahead
\* in the current week included.
C12_RollOver ==
    ExpandedRelative =>
        LET n == expand_input.notification
            t == expand_input.current_time
            stored == expand_result.stored
        IN  /\ stored # <<>>
            /\ \A k \in DOMAIN stored :
                    /\ stored[k].kind = "Absolute"
                    /\ WeekOf(stored[k].time) = WeekOf(t) + EffectiveWeek(n, Weekday(t))

\* With week = 0, a listed day is past and another one is still ahead:
\* the records of both are in the next week.
C12_Witness ==
    /\ ExpandedRelative
    /\ expand_input.notification.week = 0
    /\ \E i, j \in DOMAIN expand_input.notification.days :
            /\ expand_input.notification.days[i] <= Weekday(expand_input.current_time)
            /\ expand_input.notification.days[j] > Weekday(expand_input.current_time)
    /\ \E k \in DOMAIN expand_result.stored :
            /\ WeekOf(expand_result.stored[k].time) = WeekOf(expand_input.current_time) + 1
            /\ Weekday(expand_result.stored[k].time) > Weekday(expand_input.current_time)

\* C13: a Relative notification expands to one Absolute record for each
\* (weekday, time) pair whose time of day exists, in the order of the
\* pairs (weekday-major, then the order of the times); the record of the
\* pair (d, t) is on day d of the target week at the hour and minute of t;
\* a pair with hour > 23 or minute > 59 is left out and the others stay.
C13_ExpandRelative ==
    ExpandedRelative =>
        LET n == expand_input.notification
            now_ == expand_input.current_time
            stored == expand_result.stored
            pairs == ValidPairs(n)
            monday == now_ - (Weekday(now_) - 1) * SecondsPerDay
                        + EffectiveWeek(n, Weekday(now_)) * SecondsPerWeek
        IN  /\ stored = create_stored_notifications(n, now_)
            /\ Len(stored) = Len(pairs)
            /\ \A k \in DOMAIN pairs :
                    /\ stored[k].kind = "Absolute"
                    /\ DayOf(stored[k].time) = DayOf(monday) + (pairs[k].day - 1)
                    /\ Weekday(stored[k].time) = pairs[k].day
                    /\ HourOf(stored[k].time) = pairs[k].time.hours
                    /\ MinuteOf(stored[k].time) = pairs[k].time.minutes

\* Two days and three times, one of which does not exist: four records.
C13_Witness ==
    /\ ExpandedRelative
    /\ Len(expand_input.notification.days) = 2
    /\ Len(expand_input.notification.times) = 3
    /\ Len(expand_result.stored) = 4
    /\ Len(ValidPairs(expand_input.notification)) < Len(Pairs(expand_input.notification))

\* C14: in the configured timezone, at each of its offsets, a record of a
\* Relative notification falls on the listed weekday at the listed hour
\* and minute, the roll-over rule takes the local weekday of now, and a
\* recurrent row is due by the local weekday and the local time of day of
\* now.
C14_LocalCalendar ==
    ExpandedRelative =>
        \A offset \in IsraelOffsets :
            LET n == expand_input.notification
                now_ == expand_input.current_time
                stored == expand_result.stored
                pairs == ValidPairs(n)
                local_now == LocalOf(now_, offset)
            IN  /\ \A k \in DOMAIN stored :
                    /\ Weekday(LocalOf(stored[k].time, offset)) = pairs[k].day
                    /\ HourOf(LocalOf(stored[k].time, offset)) = pairs[k].time.hours
                    /\ MinuteOf(LocalOf(stored[k].time, offset)) = pairs[k].time.minutes
                    /\ WeekOf(LocalOf(stored[k].time, offset)) =
                            WeekOf(local_now) + EffectiveWeek(n, Weekday(local_now))
                /\ \A k \in DOMAIN pairs :
                    LET row == [id |-> 1] @@ RecurrentRow(1, n.text, pairs[k].day,
                                    pairs[k].time.hours, pairs[k].time.minutes)
                    IN  ToFire(row, now_) <=>
                            /\ pairs[k].day = Weekday(local_now)
                            /\ pairs[k].time.hours * 60 + pairs[k].time.minutes
                                    < MinutesOfDay(local_now)

\* A record for 23:30 of a listed weekday is stored at 23:30 UTC, which
\* is the next weekday in the configured timezone.
C14_Witness ==
    /\ ExpandedRelative
    /\ \E k \in DOMAIN expand_result.stored : \A offset \in IsraelOffsets :
            /\ HourOf(expand_result.stored[k].time) = 23
            /\ Weekday(expand_result.stored[k].time)
                    = ValidPairs(expand_input.notification)[k].day
            /\ Weekday(LocalOf(expand_result.stored[k].time, offset))
                    # ValidPairs(expand_input.notification)[k].day

----------------------------------------------------------------------------
(* Failures and concurrent handlers: C21 - C23, C26 - C28, under SpecChat *)

\* C21 as claimed: when the parser fails in a Repeat, or the store fails in
\* an Accept or a Delete, the handler sends no state, leaves the table as it
\* is and returns the error.
C21_FailureAborts ==
    [][ \A i \in 1..MaxHandlers, pr \in ParseResults, f \in StoreFails, tg \in TgFails :
            (/\ i \in DOMAIN handlers
             /\ handlers[i].update.kind = "callback_query"
             /\ \/ f # 0
                \/ HandlesData(i, "Repeat") /\ CallsParser(handlers[i]) /\ pr = ParseErr
             /\ HandleUpdate(i, pr, f, tg)) =>
                /\ state_channel' = state_channel
                /\ state' = state
                /\ events' = events
                /\ ~handled'.ok
      ]_vars

\* C21: when the store fails in an Accept or a Delete, the handler sends no
\* state, leaves the table and the map as they are and returns the error;
\* when the parser fails in a Repeat and the message can be edited, the
\* handler returns Ok, tells the user of the error and sends
\* ParsedWithError with the text of the snapshot.
C21_StoreFailureAborts ==
    [][ \A i \in DOMAIN handlers :
          (/\ handlers[i].update.kind = "callback_query"
           /\ handlers' = Remove(handlers, i)) =>
          \A pr \in ParseResults, f \in StoreFails, tg \in TgFails :
            (/\ f # 0 \/ (pr = ParseErr /\ tg = "none")
             /\ HandleUpdate(i, pr, f, tg)) =>
                /\ f # 0 =>
                        /\ state_channel' = state_channel
                        /\ state' = state
                        /\ events' = events
                        /\ sqlite_sequence' = sqlite_sequence
                        /\ ~handled'.ok
                /\ (/\ HandlesData(i, "Repeat")
                    /\ CallsParser(handlers[i])
                    /\ pr = ParseErr
                    /\ tg = "none") =>
                        /\ handled'.ok
                        /\ handled'.answer_text = Some("Error while parsing command")
                        /\ Sends(i, ParsedWithError(handlers[i].state.text))
      ]_vars

\* The insert of an Accept has failed, the chat is still in its Parsed
\* state, and a Repeat of it whose parse failed has returned Ok with
\* ParsedWithError.
C21_Witness ==
    /\ ~last_insert.ok
    /\ last_insert.fail # 0
    /\ events = <<>>
    /\ Handled(Repeat, "Parsed")
    /\ handled.ok
    /\ handled.new_state = ParsedWithError(handled.state.text)

\* C22: the map holds one state for every chat; a message received
\* replaces the state of its chat, whatever that state was, and no other;
\* once the channel holds no message for the chat of the handler that sent
\* last, the state of that chat is the state that handler sent.
C22_LastWriteWins ==
    [][ /\ DOMAIN state' = Chats
        /\ \A c \in Chats : state'[c] \in TableStates
        /\ (state_channel # <<>> /\ state_channel' = Tail(state_channel)) =>
                /\ state'[Head(state_channel).chat_id] = Head(state_channel).new_state
                /\ \A c \in Chats \ {Head(state_channel).chat_id} : state'[c] = state[c]
                /\ run_pc' = run_pc
        /\ (/\ handled'.sent
            /\ \A k \in DOMAIN state_channel' :
                    state_channel'[k].chat_id # handled'.chat_id) =>
                state'[handled'.chat_id] = handled'.new_state
      ]_vars

\* A text and a Cancel of chat 1 were dispatched while the chat was Idle;
\* the Parsed state of the text was committed (an Accept dispatched later
\* holds it), the Cancel ran last, and after the drain the chat is Idle.
C22_Witness ==
    /\ state_channel = <<>>
    /\ Handled(Cancel, "Idle")
    /\ handled.chat_id = 1
    /\ handled.sent
    /\ state[1] = Idle
    /\ Len(handlers) = 1
    /\ handlers[1].chat_id = 1
    /\ handlers[1].state.kind = "Parsed"

\* C23: a handler is created with the state the map holds for its chat
\* at that moment (Idle for a chat never written); the map changes only
\* when Bot::run receives from the channel, after the for loop over the
\* updates, so it is the same for every update of one poll; and a handler
\* acts on its snapshot, not on the map: an Accept dispatched while the
\* chat was Idle does nothing although the Parsed state of a text has been
\* committed since.
C23_SnapshotAtDispatch ==
    [][ /\ Len(handlers') = Len(handlers) + 1 =>
                LET h == handlers'[Len(handlers')]
                IN  /\ h.state = state[h.chat_id]
                    /\ SubSeq(handlers', 1, Len(handlers)) = handlers
                    /\ last_offset' = last_offset + 1
                    /\ run_pc = "updates"
        /\ last_offset' # last_offset => state' = state /\ run_pc' = "updates"
        /\ state' # state =>
                /\ run_pc = "recv" /\ run_pc' = "recv"
                /\ state_channel # <<>> /\ state_channel' = Tail(state_channel)
                /\ handlers' = handlers /\ last_offset' = last_offset
        /\ \A i \in 1..MaxHandlers, pr \in ParseResults, f \in StoreFails,
              tg \in TgFails :
                (/\ HandlesData(i, "Accept")
                 /\ handlers[i].state = Idle
                 /\ state[handlers[i].chat_id].kind = "Parsed"
                 /\ HandleUpdate(i, pr, f, tg)) =>
                    /\ events' = events
                    /\ Sends(i, Idle)
      ]_vars

\* The only updates taken are a text and an Accept of chat 1, the Accept
\* dispatched while the chat was Idle: the Parsed state of the text is
\* committed, and the Accept has answered nothing and sent Idle.
C23_Witness ==
    /\ last_offset = 2
    /\ Handled(Accept, "Idle")
    /\ handled.chat_id = 1
    /\ handled.answer_text = None
    /\ state[1].kind = "Parsed"
    /\ events = <<>>
    /\ Len(state_channel) = 1
    /\ state_channel[1].new_state = Idle

\* C26: an update of a chat that is not one of the users moves
\* last_offset past it and does nothing else: no handler is created, so
\* no handler, no message of the channel and no update handled is ever of
\* such a chat, its state in the map stays Idle, and no row is owned by it.
C26_StrangerIgnored ==
    [][ /\ \A d \in ChatDispatches :
                (d[1] \notin Users /\ RunDispatch(d[1], d[2])) =>
                    /\ last_offset' = last_offset + 1
                    /\ handlers' = handlers
                    /\ state_channel' = state_channel
                    /\ state' = state
                    /\ events' = events
                    /\ handled' = handled
        /\ \A k \in DOMAIN handlers' : handlers'[k].chat_id \in Users
        /\ \A k \in DOMAIN state_channel' : state_channel'[k].chat_id \in Users
        /\ \A c \in Chats \ Users : state'[c] = Idle
        /\ handled' # NoHandled => handled'.chat_id \in Users
        /\ \A k \in DOMAIN events' : events'[k].user_id \in Users
      ]_vars

\* Two updates of the stranger have been taken: last_offset is past them,
\* no handler was created and none has run.
C26_Witness ==
    /\ last_offset = 2
    /\ handlers = <<>>
    /\ handled = NoHandled
    /\ state_channel = <<>>
    /\ events = <<>>

\* C27: a Delete(ids) of a user leaves every row owned by another user as
\* it is.
C27_DeleteOnlyOwnRecords ==
    [][ \A i \in 1..MaxHandlers, pr \in ParseResults, f \in StoreFails, tg \in TgFails :
            (HandlesData(i, "Delete") /\ HandleUpdate(i, pr, f, tg)) =>
                \A k \in DOMAIN events :
                    events[k].user_id # handlers[i].chat_id => events'[k] = events[k]
      ]_vars

\* User 2 has accepted a notification, which made the row 1; user 1 has
\* sent the callback data "1", and the row of user 2 is marked deleted.
C27_Witness ==
    /\ Handled(Delete(<<1>>), handled.state.kind)
    /\ handled.chat_id = 1
    /\ handled.ok
    /\ \E k \in DOMAIN events :
            /\ events[k].id = 1
            /\ events[k].user_id = 2
            /\ events[k].is_deleted = 1

\* C28: the records of one pending parse are created at most once: the
\* Accepts that have made rows are no more than the Parsed states the
\* handlers have produced.
C28_CreatedAtMostOnce == tally.creates <= tally.parses

\* One text of chat 1 was parsed, and two Accepts have each inserted its
\* record.
C28_Witness ==
    /\ tally.parses = 1
    /\ tally.creates = 2
    /\ Len(events) = 2
    /\ events[1].user_id = 1
    /\ events[2] = [events[1] EXCEPT !.id = events[2].id]

----------------------------------------------------------------------------
(* The firing loop beside a Delete: C29, under Spec *)

\* C29: once the delete_events of a Delete callback has marked a record,
\* the firing loop sends no message for it.
C29_NoDeliveryAfterUserDelete ==
    [][ \A id \in Ids :
            sent'[id] > sent[id] =>
                ~(id \in user_deleted /\ HasRow(id) /\ RowOf(id).is_deleted = 1)
      ]_vars

\* The record is in the batch get_events_to_fire returned, a Delete
\* callback has marked it since, and the loop is about to send it.
C29_Witness ==
    /\ bg_pc = "send"
    /\ bg_i \in DOMAIN events_to_fire
    /\ LET id == events_to_fire[bg_i].event_id
       IN  /\ id \in user_deleted
           /\ HasRow(id)
           /\ RowOf(id).is_deleted = 1
           /\ sent[id] < MaxSent

----------------------------------------------------------------------------
(* The rows of the table: C25, under SpecRecords *)

\* An absolute row has its event_time and no day, hour and minute; a
\* recurrent row has a day of the week, an hour and a minute and no
\* event_time.
KindInvariant(row) ==
    /\ row.kind \in {"absolute", "recurrent"}
    /\ row.kind = "absolute" =>
            /\ row.event_time # NULL
            /\ row.day = NULL /\ row.hour = NULL /\ row.minute = NULL
    /\ row.kind = "recurrent" =>
            /\ row.day \in 1..7
            /\ row.hour # NULL /\ row.minute # NULL
            /\ row.event_time = NULL

\* C25: every row of the table satisfies the invariant of its kind, and a
\* row is not deleted when it is inserted.
C25_KindInvariant ==
    [][ \A k \in DOMAIN events' :
            /\ KindInvariant(events'[k])
            /\ k > Len(events) => events'[k].is_deleted = 0
      ]_vars

\* The parser has answered a recurrent notification for day 0, the user
\* has accepted it, and the table has a recurrent row whose day is 0.
C25_Witness ==
    /\ last_insert.ok
    /\ \E k \in DOMAIN events :
            /\ events[k].kind = "recurrent"
            /\ events[k].day = 0
            /\ events[k].hour = 8 /\ events[k].minute = 0
            /\ events[k].event_time = NULL
            /\ events[k].is_deleted = 0

----------------------------------------------------------------------------
(* The two loops: C24, under SpecLive *)

\* C24: the firing loop starts a cycle again and again, and so does
\* Bot::run, whatever has failed in the cycles before: each of them is
\* always eventually at the start of a cycle and eventually past it.
C24_LoopsNeverEnd ==
    /\ []<>(bg_pc = "get")
    /\ []<>(bg_pc # "get")
    /\ []<>(run_pc = "updates")
    /\ []<>(run_pc = "recv")

\* A send_message of the firing loop has failed and the loop is at the
\* start of its next cycle; a handler has returned an error and Bot::run is
\* at its next poll.
C24_Witness ==
    /\ bg_pc = "get"
    /\ cycle_failed # {}
    /\ run_pc = "updates"
    /\ handled # NoHandled
    /\ ~handled.ok
    /\ handlers = <<>>

----------------------------------------------------------------------------
(* The callback data: C30, under SpecCodec *)

\* The string under observation has been parsed.
CodecParsed == codec.stage = "parsed"

\* C30: the string to_string makes of a query parses back to that query,
\* for Repeat, Accept, Cancel and Delete(ids) with any list of ids, the
\* empty list too; a string that parses to no query makes
\* handle_callback_query return an error without sending a state and
\* without touching the table.
C30_RoundTrip ==
    CodecParsed =>
        /\ codec.query # NoQuery =>
                /\ codec.result.ok
                /\ codec.result.data = codec.query
        /\ ~codec.result.ok =>
                \A st \in TableStates :
                    LET r == handle_callback_query(st, codec.payload, 1, events,
                                    sqlite_sequence, now, ParseErr, 0, "none")
                    IN  /\ ~r.ok
                        /\ ~r.sent
                        /\ r.events = events
                        /\ r.sqlite_sequence = sqlite_sequence

\* The button of an Accept that made no row: Delete of no ids is written as
\* the empty string, which does not parse.
C30_Witness ==
    /\ CodecParsed
    /\ codec.query = Delete(<<>>)
    /\ codec.payload = <<>>
    /\ ~codec.result.ok

====
